---- MODULE Spec2Model ----
(***************************************************************************)
(* Model of emulators-ui: the virtual-controller layer                     *)
(* (src/controls/layers-control.ts) and the two rendering backends         *)
(* (src/graphics/_2d.ts and the webGl backend).                            *)
(***************************************************************************)
EXTENDS Integers, Sequences, FiniteSets, TLC

(***************************************************************************)
(* Bounds of the exploration.                                              *)
(***************************************************************************)
MaxTaps == 3
MaxResizes == 2
MaxTeardowns == 2
MaxRenderEvents == 4
MaxDim == 2

(***************************************************************************)
(* JavaScript numbers of the controls layer.  The container sizes of that  *)
(* layer are multiples of 60 and its grids have 10 x 6 or 5 x 3 cells, so  *)
(* every value it computes is an integer or a half, which a double holds   *)
(* exactly: they are kept as reduced fractions, plus NaN and the signed    *)
(* infinities that a division by zero produces.                            *)
(***************************************************************************)
Abs(x) == IF x < 0 THEN -x ELSE x

Sign(x) == IF x < 0 THEN -1 ELSE 1

RECURSIVE Gcd(_, _)
Gcd(a, b) == IF b = 0 THEN a ELSE Gcd(b, a % b)

NaN == [k |-> "nan", n |-> 0, d |-> 1]

Inf(s) == [k |-> "inf", n |-> s, d |-> 1]

Frac(n, d) ==
    LET g == Gcd(Abs(n), Abs(d))
    IN  [k |-> "num", n |-> (Sign(d) * n) \div g, d |-> Abs(d) \div g]

Num(n) == [k |-> "num", n |-> n, d |-> 1]

FDiv(a, b) ==
    IF a.k = "nan" \/ b.k = "nan" THEN NaN
    ELSE IF a.k = "inf" THEN (IF b.k = "inf" THEN NaN ELSE Inf(a.n * Sign(b.n)))
    ELSE IF b.k = "inf" THEN Num(0)
    ELSE IF b.n = 0 THEN (IF a.n = 0 THEN NaN ELSE Inf(Sign(a.n)))
    ELSE Frac(a.n * b.d, a.d * b.n)

FMul(a, b) ==
    IF a.k = "nan" \/ b.k = "nan" THEN NaN
    ELSE IF a.k = "inf" \/ b.k = "inf"
         THEN (IF a.n = 0 \/ b.n = 0 THEN NaN ELSE Inf(Sign(a.n) * Sign(b.n)))
    ELSE Frac(a.n * b.n, a.d * b.d)

FSub(a, b) ==
    IF a.k = "nan" \/ b.k = "nan" THEN NaN
    ELSE IF a.k = "inf" THEN (IF b.k = "inf" /\ b.n = a.n THEN NaN ELSE a)
    ELSE IF b.k = "inf" THEN Inf(-b.n)
    ELSE Frac(a.n * b.d - b.n * a.d, a.d * b.d)

FGt(a, b) ==
    IF a.k = "nan" \/ b.k = "nan" THEN FALSE
    ELSE IF a.k = "inf" THEN a.n = 1 /\ ~(b.k = "inf" /\ b.n = 1)
    ELSE IF b.k = "inf" THEN b.n = -1
    ELSE a.n * b.d > b.n * a.d

\* value + "px"
Px(v) == [value |-> v, unit |-> "px"]

(***************************************************************************)
(* The numbers of the rendering backends are IEEE 754 doubles.  A finite   *)
(* double is sign * m * 2^e with m a natural number of at most 53 bits;    *)
(* m is kept as a little-endian sequence of 15-bit limbs, odd unless the   *)
(* value is zero, so that equal values are equal records.  The operators   *)
(* starting with B compute on such naturals, those starting with X on     *)
(* the values sign * m * 2^e exactly, and those starting with D round the  *)
(* exact result to the nearest double, ties to even, as the build does.    *)
(* Intermediate results are bound once, as the single element of a set.    *)
(***************************************************************************)
LimbBits == 15

LimbBase == 32768

Precision == 53

Limb(a, i) == IF i <= Len(a) THEN a[i] ELSE 0

Max(x, y) == IF x >= y THEN x ELSE y

Min(x, y) == IF x <= y THEN x ELSE y

RECURSIVE BNorm(_)
BNorm(a) ==
    IF a # <<>> /\ a[Len(a)] = 0 THEN BNorm(SubSeq(a, 1, Len(a) - 1)) ELSE a

RECURSIVE BFromInt(_)
BFromInt(i) == IF i = 0 THEN <<>> ELSE <<i % LimbBase>> \o BFromInt(i \div LimbBase)

RECURSIVE BCmpFrom(_, _, _)
BCmpFrom(a, b, i) ==
    IF i = 0 THEN 0
    ELSE IF a[i] # b[i] THEN (IF a[i] > b[i] THEN 1 ELSE -1)
    ELSE BCmpFrom(a, b, i - 1)

\* -1, 0 or 1 as a < b, a = b or a > b
BCmp(a, b) ==
    IF Len(a) # Len(b) THEN (IF Len(a) > Len(b) THEN 1 ELSE -1)
    ELSE BCmpFrom(a, b, Len(a))

RECURSIVE BAddFrom(_, _, _, _)
BAddFrom(a, b, i, carry) ==
    IF i > Len(a) /\ i > Len(b) THEN (IF carry = 0 THEN <<>> ELSE <<carry>>)
    ELSE <<(Limb(a, i) + Limb(b, i) + carry) % LimbBase>>
         \o BAddFrom(a, b, i + 1, (Limb(a, i) + Limb(b, i) + carry) \div LimbBase)

BAdd(a, b) == BAddFrom(a, b, 1, 0)

RECURSIVE BSubFrom(_, _, _, _)
BSubFrom(a, b, i, borrow) ==
    IF i > Len(a) THEN <<>>
    ELSE <<(a[i] - Limb(b, i) - borrow + LimbBase) % LimbBase>>
         \o BSubFrom(a, b, i + 1, IF a[i] - Limb(b, i) - borrow < 0 THEN 1 ELSE 0)

\* a - b for a >= b
BSub(a, b) == BNorm(BSubFrom(a, b, 1, 0))

RECURSIVE BMulLimbFrom(_, _, _, _)
BMulLimbFrom(a, x, i, carry) ==
    IF i > Len(a) THEN (IF carry = 0 THEN <<>> ELSE <<carry>>)
    ELSE <<(a[i] * x + carry) % LimbBase>>
         \o BMulLimbFrom(a, x, i + 1, (a[i] * x + carry) \div LimbBase)

\* a * x for one limb x
BMulLimb(a, x) == BNorm(BMulLimbFrom(a, x, 1, 0))

RECURSIVE BMulFrom(_, _, _)
BMulFrom(a, b, j) ==
    IF j > Len(b) THEN <<>>
    ELSE BAdd(BMulLimb(a, b[j]), <<0>> \o BMulFrom(a, b, j + 1))

BMul(a, b) == BNorm(BMulFrom(a, b, 1))

\* a * 2^k
BShl(a, k) ==
    IF a = <<>> THEN <<>>
    ELSE [i \in 1..(k \div LimbBits) |-> 0] \o BMulLimb(a, 2 ^ (k % LimbBits))

BShrBits(x, p) ==
    BNorm([i \in 1..Len(x) |-> (x[i] \div p) + (Limb(x, i + 1) % p) * (LimbBase \div p)])

\* a \div 2^k
BShr(a, k) == BShrBits(SubSeq(a, (k \div LimbBits) + 1, Len(a)), 2 ^ (k % LimbBits))

RECURSIVE IntBits(_)
IntBits(x) == IF x = 0 THEN 0 ELSE 1 + IntBits(x \div 2)

\* the number of bits of a
BBits(a) == IF a = <<>> THEN 0 ELSE LimbBits * (Len(a) - 1) + IntBits(a[Len(a)])

\* bit j of a, bit 0 the lowest
BBit(a, j) == (Limb(a, (j \div LimbBits) + 1) \div (2 ^ (j % LimbBits))) % 2

BOdd(a) == a # <<>> /\ a[1] % 2 = 1

RECURSIVE IntTrailingZeros(_)
IntTrailingZeros(x) == IF x % 2 = 1 THEN 0 ELSE 1 + IntTrailingZeros(x \div 2)

RECURSIVE BTrailingZeros(_)
BTrailingZeros(a) ==
    IF a[1] = 0 THEN LimbBits + BTrailingZeros(Tail(a)) ELSE IntTrailingZeros(a[1])

\* one step of the long division of n by d: bit j of n is brought down
BDivStepWith(d, st, r2) ==
    IF BCmp(r2, d) >= 0
    THEN [q |-> BAddFrom(st.q, st.q, 1, 1), r |-> BSub(r2, d)]
    ELSE [q |-> BAddFrom(st.q, st.q, 1, 0), r |-> r2]

BDivStep(n, d, j, st) ==
    CHOOSE out \in {BDivStepWith(d, st, r2) : r2 \in {BAddFrom(st.r, st.r, 1, BBit(n, j))}} : TRUE

\* c steps of the long division, from bit j - 1 down
RECURSIVE BDivBits(_, _, _, _, _)
BDivBits(n, d, j, c, st) ==
    IF c = 0 THEN st
    ELSE CHOOSE out \in {BDivBits(n, d, j - 1, c - 1, nx) :
                            nx \in {BDivStep(n, d, j - 1, st)}} : TRUE

\* the long division, a limb of the dividend at a time
RECURSIVE BDivLoop(_, _, _, _)
BDivLoop(n, d, j, st) ==
    IF j = 0 THEN st
    ELSE CHOOSE out \in {BDivLoop(n, d, j - Min(j, LimbBits), nx) :
                            nx \in {BDivBits(n, d, j, Min(j, LimbBits), st)}} : TRUE

\* quotient q and remainder r of n by d, d # 0
BDivMod(n, d) == BDivLoop(n, d, BBits(n), [q |-> <<>>, r |-> <<>>])

DNaN == [k |-> "nan", s |-> 0, m |-> <<>>, e |-> 0]

DInf(s) == [k |-> "inf", s |-> s, m |-> <<>>, e |-> 0]

DZero == [k |-> "num", s |-> 0, m |-> <<>>, e |-> 0]

DyOdd(s, m, e, tz) == [k |-> "num", s |-> s, m |-> BShr(m, tz), e |-> e + tz]

\* the value s * m * 2^e, with m made odd
Dy(s, m, e) ==
    IF m = <<>> \/ s = 0 THEN DZero ELSE DyOdd(s, m, e, BTrailingZeros(m))

\* the low t bits of q against half a unit of the bit above them
RoundCmp(q, hi, t) == BCmp(BSub(q, BShl(hi, t)), BShl(<<1>>, t - 1))

RoundPick(s, hi, e, sticky, c) ==
    IF c > 0 \/ (c = 0 /\ (sticky \/ BOdd(hi)))
    THEN Dy(s, BAdd(hi, <<1>>), e)
    ELSE Dy(s, hi, e)

RoundDrop(s, q, e, sticky, t) ==
    CHOOSE out \in {RoundPick(s, hi, e + t, sticky, RoundCmp(q, hi, t)) :
                       hi \in {BShr(q, t)}} : TRUE

\* s * (q + f) * 2^e, where 0 <= f < 1 and f # 0 iff sticky, to the nearest
\* double, ties to even
Round(s, q, e, sticky) ==
    IF BBits(q) <= Precision THEN Dy(s, q, e)
    ELSE RoundDrop(s, q, e, sticky, BBits(q) - Precision)

\* the double of an integer
DNum(i) == IF i = 0 THEN DZero ELSE Dy(IF i < 0 THEN -1 ELSE 1, BFromInt(IF i < 0 THEN -i ELSE i), 0)

XNeg(a) == [a EXCEPT !.s = -a.s]

XAbs(a) == [a EXCEPT !.s = a.s * a.s]

\* a * 2^k, exactly
XScale(a, k) == IF a.s = 0 THEN a ELSE [a EXCEPT !.e = a.e + k]

XAddAligned(sa, ma, sb, mb, e) ==
    IF sa = sb THEN Dy(sa, BAdd(ma, mb), e)
    ELSE IF BCmp(ma, mb) = 0 THEN DZero
    ELSE IF BCmp(ma, mb) > 0 THEN Dy(sa, BSub(ma, mb), e)
    ELSE Dy(sb, BSub(mb, ma), e)

XAddAt(a, b, e) ==
    CHOOSE out \in {XAddAligned(a.s, ma, b.s, mb, e) :
                       ma \in {BShl(a.m, a.e - e)}, mb \in {BShl(b.m, b.e - e)}} : TRUE

\* a + b, exactly, for finite a and b
XAdd(a, b) ==
    IF a.s = 0 THEN b ELSE IF b.s = 0 THEN a ELSE XAddAt(a, b, Min(a.e, b.e))

XSub(a, b) == XAdd(a, XNeg(b))

\* a * b, exactly, for finite a and b
XMul(a, b) ==
    IF a.s = 0 \/ b.s = 0 THEN DZero
    ELSE CHOOSE out \in {Dy(a.s * b.s, m, a.e + b.e) : m \in {BMul(a.m, b.m)}} : TRUE

\* a <= b for finite a and b
XLe(a, b) == XSub(a, b).s <= 0

\* an exact value rounded to a double
DRound(x) == CHOOSE out \in {Round(v.s, v.m, v.e, FALSE) : v \in {x}} : TRUE

\* the bits the dividend is shifted by, for a quotient of 55 bits or more
DivShift(a, b) == Max(0, Precision + 2 + BBits(b.m) - BBits(a.m))

DivRound(a, b, k) ==
    CHOOSE out \in {Round(a.s * b.s, qr.q, a.e - b.e - k, qr.r # <<>>) :
                       qr \in {BDivMod(BShl(a.m, k), b.m)}} : TRUE

\* a / b
DDiv(a, b) ==
    IF a.k = "nan" \/ b.k = "nan" THEN DNaN
    ELSE IF a.k = "inf" THEN (IF b.k = "inf" THEN DNaN ELSE DInf(IF b.s < 0 THEN -a.s ELSE a.s))
    ELSE IF b.k = "inf" THEN DZero
    ELSE IF b.s = 0 THEN (IF a.s = 0 THEN DNaN ELSE DInf(a.s))
    ELSE IF a.s = 0 THEN DZero
    ELSE DivRound(a, b, DivShift(a, b))

\* a * b
DMul(a, b) ==
    IF a.k = "nan" \/ b.k = "nan" THEN DNaN
    ELSE IF a.k = "inf" \/ b.k = "inf"
         THEN (IF a.s = 0 \/ b.s = 0 THEN DNaN ELSE DInf(a.s * b.s))
    ELSE DRound(XMul(a, b))

\* a - b
DSub(a, b) ==
    IF a.k = "nan" \/ b.k = "nan" THEN DNaN
    ELSE IF a.k = "inf" THEN (IF b.k = "inf" /\ b.s = a.s THEN DNaN ELSE a)
    ELSE IF b.k = "inf" THEN DInf(-b.s)
    ELSE DRound(XSub(a, b))

\* a > b
DGt(a, b) ==
    IF a.k = "nan" \/ b.k = "nan" THEN FALSE
    ELSE IF a.k = "inf" THEN a.s = 1 /\ ~(b.k = "inf" /\ b.s = 1)
    ELSE IF b.k = "inf" THEN b.s = -1
    ELSE XSub(a, b).s = 1

(***************************************************************************)
(* Strings that the code searches are sequences of characters.             *)
(***************************************************************************)
IsPrefixAt(s, sub, i) ==
    /\ i + Len(sub) - 1 <= Len(s)
    /\ \A j \in 1..Len(sub) : s[i + j - 1] = sub[j]

\* String.prototype.indexOf: the first 0-based position of sub in s, or -1
IndexOf(s, sub) ==
    LET hits == {i \in 1..(Len(s) + 1) : IsPrefixAt(s, sub, i)}
    IN  IF hits = {} THEN -1
        ELSE (CHOOSE i \in hits : \A j \in hits : i <= j) - 1

StrUp == <<"u", "p">>

StrDown == <<"d", "o", "w", "n">>

StrLeft == <<"l", "e", "f", "t">>

StrRight == <<"r", "i", "g", "h", "t">>

StrDash == <<"-">>

Directions ==
    { StrUp, StrDown, StrLeft, StrRight,
      StrUp \o StrDash \o StrLeft, StrUp \o StrDash \o StrRight,
      StrDown \o StrDash \o StrLeft, StrDown \o StrDash \o StrRight,
      StrLeft \o StrRight, StrRight \o StrLeft,
      StrUp \o StrDown, StrDown \o StrUp,
      <<>>, <<"u">>, <<"x", "u", "p", "s">> }

(***************************************************************************)
(* Layers configuration (layers-config): a list of layers, each with a     *)
(* title, a grid type and a list of controls.                              *)
(***************************************************************************)
Undefined == "undefined"

\* the mapTo key codes of the Key controls
KeyCodes == <<65, 66, 67>>

KeyA == KeyCodes[1]

KeyB == KeyCodes[2]

KeyC == KeyCodes[3]

Control(type, row, column, mapTo, direction, button, target) ==
    [type |-> type, row |-> row, column |-> column, mapTo |-> mapTo,
     direction |-> direction, button |-> button, layerName |-> target]

KeyCtl(row, column, mapTo) == Control("Key", row, column, mapTo, <<>>, 0, "")

OptionsCtl(row, column) == Control("Options", row, column, 0, <<>>, 0, "")

KeyboardCtl(row, column) == Control("Keyboard", row, column, 0, <<>>, 0, "")

SwitchCtl(row, column, target) == Control("Switch", row, column, 0, <<>>, 0, target)

ScreenMoveCtl(row, column, dir) == Control("ScreenMove", row, column, 0, dir, 0, "")

PointerButtonCtl(row, column, b) == Control("PointerButton", row, column, 0, <<>>, b, "")

OtherCtl(type, row, column) == Control(type, row, column, 0, <<>>, 0, "")

Layer(title, grid, controls) == [title |-> title, grid |-> grid, controls |-> controls]

\* the configurations explored: one per direction of the ScreenMove control
MkLayersConfig(dir) ==
    [layers |-> <<
        Layer("keys", "square",
              <<KeyCtl(0, 0, KeyA), OtherCtl("Joystick", 0, 1), KeyCtl(1, 0, KeyB)>>),
        Layer("mouse", "honeycomb",
              <<PointerButtonCtl(0, 0, 1), PointerButtonCtl(1, 1, 2)>>),
        Layer("move", "honeycomb", <<ScreenMoveCtl(0, 1, dir)>>),
        Layer("keys", "square", <<KeyCtl(0, 0, KeyC)>>),
        Layer("menu", "square",
              <<OptionsCtl(0, 1), OtherCtl("NippleKey", 1, 0), KeyboardCtl(0, 0),
                SwitchCtl(1, 1, "mouse"), KeyboardCtl(1, 0)>>),
        Layer("empty", "square", <<>>)
    >>]

LayersConfigs == {MkLayersConfig(d) : d \in Directions}

LayerNames == {Undefined, "keys", "mouse", "move", "menu", "empty", "absent"}

ContainerSizes == {<<w * 60, h * 60>> : w \in 1..MaxDim, h \in {1}}

(***************************************************************************)
(* Grid (controls/grid): the cell geometry for a container size.           *)
(***************************************************************************)
GridCols(gridType) == IF gridType = "honeycomb" THEN 5 ELSE 10

GridRows(gridType) == IF gridType = "honeycomb" THEN 3 ELSE 6

\* getGrid(gridType).getConfiguration(width, height)
GetConfiguration(gridType, width, height) ==
    [gridType |-> gridType,
     width |-> Num(width), height |-> Num(height),
     columnWidth |-> FDiv(Num(width), Num(GridCols(gridType))),
     rowHeight |-> FDiv(Num(height), Num(GridRows(gridType)))]

\* gridConfig.cells[row][column]
Cell(gridConfig, row, column) ==
    [centerX |-> FMul(gridConfig.columnWidth, Frac(2 * column + 1, 2)),
     centerY |-> FMul(gridConfig.rowHeight, Frac(2 * row + 1, 2))]

(***************************************************************************)
(* State of the controls layer.                                            *)
(***************************************************************************)
VARIABLES
    layersConfig,      \* argument of initLayersControl
    layerName,         \* argument of initLayersControl (Undefined when omitted)
    layersSize,        \* layers.width, layers.height
    resizeListeners,   \* handlers registered with layers.addOnResize
    unbindControls,    \* the unbind closures, each named by the element it removes
    mouseOverlay,      \* children of layers.mouseOverlay
    kbVisHandlers,     \* handlers registered with layers.setOnKeyboardVisibility
    keyboardVisible,   \* state toggled by layers.toggleKeyboard
    closeIcon,         \* buttons carrying the class emulator-control-close-icon
    pointerButton,     \* layers.pointerButton
    gridConfig,        \* the grid configuration of the last onResize run
    builds,            \* number of onResize runs (names the elements created)
    held,              \* buttons whose onDown ran and whose onUp has not yet
    keyLog,            \* calls of ci.sendKeyEvent, in order
    mouseLog,          \* calls of ci.sendMouseMotion, in order
    switchLog,         \* calls of dosInstance.setLayersConfig, in order
    errorLog,          \* console.error messages, in order
    tapLog,            \* the tap events delivered to buttons, in order
    unbindCalls,       \* how many times each unbind closure was invoked
    keyboardUnbinds,   \* calls of unbindKeyboard
    mouseUnbinds,      \* calls of unbindMouse
    teardowns,         \* calls of the function returned by initLayersControl
    resizes,           \* resize notifications of layers so far
    thrown             \* exceptions that escaped a handler

layerVars ==
    <<layersConfig, layerName, layersSize, resizeListeners, unbindControls,
      mouseOverlay, kbVisHandlers, keyboardVisible, closeIcon, pointerButton,
      gridConfig, builds, held, keyLog, mouseLog, switchLog, errorLog, tapLog,
      unbindCalls, keyboardUnbinds, mouseUnbinds, teardowns, resizes, thrown>>

(***************************************************************************)
(* State of the rendering backends (the operations are further down).     *)
(***************************************************************************)
VARIABLES
    render,          \* per backend: the closure variables and the canvas
    exited,          \* the emulator's exit event has fired
    containerSize,   \* layers.width, layers.height
    ciFrameSize,     \* the frame size the emulator last announced
    frameLog,        \* per frame event: the frame size it was emitted with
    rgbLog,          \* per frame event: the RGB array it carried
    layerResizes,    \* container-resize notifications so far
    renderEvents     \* events delivered so far

renderVars ==
    <<render, exited, containerSize, ciFrameSize, frameLog, rgbLog, layerResizes, renderEvents>>

\* a selection loop without the break: the last layer of that title wins
SelectLayerLast(config, name) ==
    LET matches == {i \in 1..Len(config.layers) : config.layers[i].title = name}
    IN  IF name # Undefined /\ matches # {}
        THEN config.layers[CHOOSE i \in matches : \A j \in matches : i >= j]
        ELSE config.layers[1]

\* initLayersControl: the layer to show
SelectLayer(config, name) ==
    LET matches == {i \in 1..Len(config.layers) : config.layers[i].title = name}
    IN  IF name # Undefined /\ matches # {}
        THEN config.layers[CHOOSE i \in matches : \A j \in matches : i <= j]
        ELSE config.layers[1]

selectedLayer == SelectLayer(layersConfig, layerName)

Unset == [value |-> Num(0), unit |-> ""]

Half == Frac(1, 2)

\* the element a factory builds: its handlers are those of the factory named,
\* closed over the control and (for ScreenMove) over mX and mY
Element(id, factory, control, left, top, right, mX, mY) ==
    [id |-> id, factory |-> factory, control |-> control,
     left |-> left, top |-> top, right |-> right, mX |-> mX, mY |-> mY]

\* button.style.left / button.style.top of the four button factories
ButtonLeft(control, g) ==
    Px(FSub(Cell(g, control.row, control.column).centerX, FDiv(g.columnWidth, Num(2))))

ButtonTop(control, g) ==
    Px(FSub(Cell(g, control.row, control.column).centerY, FDiv(g.rowHeight, Num(2))))

\* the part of the layers object a factory or an unbind closure touches
Dom(overlay, handlers, calls, threw) ==
    [overlay |-> overlay, handlers |-> handlers, calls |-> calls, threw |-> threw]

\* layers.mouseOverlay.appendChild(button); return the closure that removes it
Mount(dom, button) ==
    [dom |-> [dom EXCEPT !.overlay = @ \cup {button}], unbind |-> button]

\* layers.setOnKeyboardVisibility(handler): the handler joins the registered ones
SetOnKeyboardVisibility(handlers, handler) == Append(handlers, handler)

\* layers.removeOnKeyboardVisibility(handler): that handler is dropped
RemoveOnKeyboardVisibility(handlers, handler) ==
    SelectSeq(handlers, LAMBDA h : h # handler)

\* the same, after layers.setOnKeyboardVisibility(onKeyboardVisibility)
MountWithHandler(dom, button) ==
    [dom |-> [dom EXCEPT !.overlay = @ \cup {button},
                         !.handlers = SetOnKeyboardVisibility(@, button)],
     unbind |-> button]

createKeyControl(control, g, id, dom) ==
    Mount(dom, Element(id, "createKeyControl", control,
                       ButtonLeft(control, g), ButtonTop(control, g), Unset, Half, Half))

createOptionsControl(control, g, id, dom) ==
    LET top == FSub(Cell(g, control.row, control.column).centerY, FDiv(g.rowHeight, Num(2)))
        left == FSub(Cell(g, control.row, control.column).centerX, FDiv(g.columnWidth, Num(2)))
        right == FSub(FSub(g.width, left), g.columnWidth)
    IN  Mount(dom, Element(id, "createOptionsControl", control,
                           Unset, Px(top), Px(right), Half, Half))

createKeyboardControl(control, g, id, dom) ==
    MountWithHandler(dom, Element(id, "createKeyboardControl", control,
                                  ButtonLeft(control, g), ButtonTop(control, g),
                                  Unset, Half, Half))

createSwitchControl(control, g, id, dom) ==
    Mount(dom, Element(id, "createSwitchControl", control,
                       ButtonLeft(control, g), ButtonTop(control, g), Unset, Half, Half))

\* a ScreenMove factory that tests "right" before "left" and "down" before "up"
createScreenMoveControlSwapped(control, g, id, dom) ==
    LET mY0 == IF IndexOf(control.direction, StrDown) >= 0 THEN Num(1) ELSE Half
        mY == IF IndexOf(control.direction, StrUp) >= 0 THEN Num(0) ELSE mY0
        mX0 == IF IndexOf(control.direction, StrRight) >= 0 THEN Num(1) ELSE Half
        mX == IF IndexOf(control.direction, StrLeft) >= 0 THEN Num(0) ELSE mX0
    IN  Mount(dom, Element(id, "createScreenMoveControl", control,
                           ButtonLeft(control, g), ButtonTop(control, g), Unset, mX, mY))

createScreenMoveControl(control, g, id, dom) ==
    LET mY0 == IF IndexOf(control.direction, StrUp) >= 0 THEN Num(0) ELSE Half
        mY == IF IndexOf(control.direction, StrDown) >= 0 THEN Num(1) ELSE mY0
        mX0 == IF IndexOf(control.direction, StrLeft) >= 0 THEN Num(0) ELSE Half
        mX == IF IndexOf(control.direction, StrRight) >= 0 THEN Num(1) ELSE mX0
    IN  Mount(dom, Element(id, "createScreenMoveControl", control,
                           ButtonLeft(control, g), ButtonTop(control, g), Unset, mX, mY))

createPointerButtonControl(control, g, id, dom) ==
    Mount(dom, Element(id, "createPointerButtonControl", control,
                       ButtonLeft(control, g), ButtonTop(control, g), Unset, Half, Half))

factoryMapping ==
    [t \in {"Key", "Options", "Keyboard", "Switch", "ScreenMove", "PointerButton"} |->
        CASE t = "Key" -> "createKeyControl"
          [] t = "Options" -> "createOptionsControl"
          [] t = "Keyboard" -> "createKeyboardControl"
          [] t = "Switch" -> "createSwitchControl"
          [] t = "ScreenMove" -> "createScreenMoveControl"
          [] t = "PointerButton" -> "createPointerButtonControl"]

\* factory(next, layers, ci, gridConfig, dosInstance)
CallFactory(factory, control, g, id, dom) ==
    CASE factory = "createKeyControl" -> createKeyControl(control, g, id, dom)
      [] factory = "createOptionsControl" -> createOptionsControl(control, g, id, dom)
      [] factory = "createKeyboardControl" -> createKeyboardControl(control, g, id, dom)
      [] factory = "createSwitchControl" -> createSwitchControl(control, g, id, dom)
      [] factory = "createScreenMoveControl" -> createScreenMoveControl(control, g, id, dom)
      [] factory = "createPointerButtonControl" -> createPointerButtonControl(control, g, id, dom)

\* a Keyboard closure that removes the button and leaves its handler registered
UnbindLeavesHandler(button, dom) ==
    IF button \notin dom.overlay
    THEN [dom EXCEPT !.calls = Append(@, button.id), !.threw = TRUE]
    ELSE [dom EXCEPT !.calls = Append(@, button.id), !.overlay = @ \ {button}]

\* the closure a factory returns: removeChild throws when the element is not a
\* child, and the statements after it are then not reached
Unbind(button, dom) ==
    IF button \notin dom.overlay
    THEN [dom EXCEPT !.calls = Append(@, button.id), !.threw = TRUE]
    ELSE IF button.factory = "createKeyboardControl"
    THEN [dom EXCEPT !.calls = Append(@, button.id),
                     !.overlay = @ \ {button},
                     !.handlers = RemoveOnKeyboardVisibility(@, button)]
    ELSE [dom EXCEPT !.calls = Append(@, button.id), !.overlay = @ \ {button}]

\* for (const next of unbindControls) next();
RECURSIVE UnbindAll(_, _)
UnbindAll(unbinds, dom) ==
    IF unbinds = <<>> \/ dom.threw THEN dom
    ELSE UnbindAll(Tail(unbinds), Unbind(Head(unbinds), dom))

\* unbindControls.push(unbind)
Push(acc, made) ==
    [acc EXCEPT !.dom = made.dom, !.unbinds = Append(@, made.unbind)]

\* a creation loop that stops at the first control without a factory
RECURSIVE CreateControlsUntilUnknown(_, _, _, _, _)
CreateControlsUntilUnknown(controls, i, g, build, acc) ==
    IF i > Len(controls) THEN acc
    ELSE IF controls[i].type \notin DOMAIN factoryMapping
    THEN [acc EXCEPT !.errors = Append(@, controls[i].type)]
    ELSE CreateControlsUntilUnknown(controls, i + 1, g, build,
             Push(acc, CallFactory(factoryMapping[controls[i].type], controls[i], g,
                                   <<build, i>>, acc.dom)))

\* for (const next of layerConfig.controls) { ... }
RECURSIVE CreateControls(_, _, _, _, _)
CreateControls(controls, i, g, build, acc) ==
    IF i > Len(controls) THEN acc
    ELSE IF controls[i].type \notin DOMAIN factoryMapping
    THEN CreateControls(controls, i + 1, g, build,
                        [acc EXCEPT !.errors = Append(@, controls[i].type)])
    ELSE CreateControls(controls, i + 1, g, build,
             Push(acc, CallFactory(factoryMapping[controls[i].type], controls[i], g,
                                   <<build, i>>, acc.dom)))

\* the rest of onResize once the unbind closures have run: nothing more when
\* one of them threw, else the splice and the creation loop
Rebuild(layer, g, unbinds, cleared, build) ==
    IF cleared.threw
    THEN [dom |-> cleared, unbinds |-> unbinds, errors |-> <<>>,
          built |-> FALSE, gridConfig |-> g]
    ELSE CreateControls(layer.controls, 1, g, build,
             [dom |-> cleared, unbinds |-> <<>>, errors |-> <<>>,
              built |-> TRUE, gridConfig |-> g])

\* an onResize that builds the new controls without unbinding the old ones
onResizeKeepsOld(layer, width, height, unbinds, dom, build) ==
    Rebuild(layer, GetConfiguration(layer.grid, width, height), unbinds, dom, build)

\* initLayerConfig.onResize(width, height), run as build number `build`
onResize(layer, width, height, unbinds, dom, build) ==
    Rebuild(layer, GetConfiguration(layer.grid, width, height), unbinds,
            UnbindAll(unbinds, dom), build)

\* initLayersControl(layers, layersConfig, ci, dosInstance, layerName)
InitLayersControl(config, name, size) ==
    /\ layersConfig = config
    /\ layerName = name
    /\ layersSize = size
    /\ \E first \in {onResize(SelectLayer(config, name), size[1], size[2], <<>>,
                                Dom({}, <<>>, <<>>, FALSE), 1)} :
           /\ unbindControls = first.unbinds
           /\ mouseOverlay = first.dom.overlay
           /\ kbVisHandlers = first.dom.handlers
           /\ unbindCalls = first.dom.calls
           /\ errorLog = first.errors
           /\ gridConfig = first.gridConfig
    /\ resizeListeners = {"onResize"}
    /\ builds = 1
    /\ keyboardVisible = FALSE
    /\ closeIcon = {}
    /\ pointerButton = 0
    /\ held = {}
    /\ keyLog = <<>>
    /\ mouseLog = <<>>
    /\ switchLog = <<>>
    /\ tapLog = <<>>
    /\ keyboardUnbinds = 0
    /\ mouseUnbinds = 0
    /\ teardowns = 0
    /\ resizes = 0
    /\ thrown = 0

\* layers notifies its resize listeners of a new container size
LayersResize(width, height) ==
    /\ resizes < MaxResizes
    /\ resizes' = resizes + 1
    /\ layersSize' = <<width, height>>
    /\ IF "onResize" \in resizeListeners
       THEN \E run \in {onResize(selectedLayer, width, height, unbindControls,
                                   Dom(mouseOverlay, kbVisHandlers, unbindCalls, FALSE),
                                   builds + 1)} :
                /\ unbindControls' = run.unbinds
                /\ mouseOverlay' = run.dom.overlay
                /\ kbVisHandlers' = run.dom.handlers
                /\ unbindCalls' = run.dom.calls
                /\ errorLog' = errorLog \o run.errors
                /\ gridConfig' = IF run.built THEN run.gridConfig ELSE gridConfig
                /\ builds' = builds + 1
                /\ thrown' = IF run.built THEN thrown ELSE thrown + 1
       ELSE UNCHANGED <<unbindControls, mouseOverlay, kbVisHandlers, unbindCalls,
                        errorLog, gridConfig, builds, thrown>>
    /\ UNCHANGED <<layersConfig, layerName, resizeListeners, keyboardVisible,
                   closeIcon, pointerButton, held, keyLog, mouseLog, switchLog,
                   tapLog, keyboardUnbinds, mouseUnbinds, teardowns>>
    /\ UNCHANGED renderVars

\* layers.toggleKeyboard(): flips the visibility and notifies the handlers,
\* each of which sets or clears the close icon of its own button
ToggleKeyboard ==
    /\ keyboardVisible' = ~keyboardVisible
    /\ closeIcon' = IF ~keyboardVisible
                    THEN closeIcon \cup {kbVisHandlers[i] : i \in 1..Len(kbVisHandlers)}
                    ELSE closeIcon \ {kbVisHandlers[i] : i \in 1..Len(kbVisHandlers)}

\* createKeyControl: onDown and onUp of the button
KeyOnDown(button, log) ==
    Append(log, [key |-> button.control.mapTo, pressed |-> TRUE])

\* a release handler that reports the key as pressed
KeyOnUpPressed(button, log) ==
    Append(log, [key |-> button.control.mapTo, pressed |-> TRUE])

KeyOnUp(button, log) ==
    Append(log, [key |-> button.control.mapTo, pressed |-> FALSE])

\* createScreenMoveControl: onDown and onUp of the button
ScreenMoveOnDown(button, log) == Append(log, [x |-> button.mX, y |-> button.mY])

ScreenMoveOnUp(button, log) == Append(log, [x |-> Half, y |-> Half])

\* createPointerButtonControl: onDown and onUp of the button
PointerButtonOnDown(button, current) == button.control.button

PointerButtonOnUp(button, current) == 0

\* createSwitchControl: onUp of the button
SwitchOnUp(button, log) == Append(log, button.control.layerName)

\* createButton: a press on a bound button runs its handler's onDown, if any
Press(button) ==
    /\ Len(tapLog) < MaxTaps
    /\ button \in mouseOverlay
    /\ button \notin held
    /\ held' = held \cup {button}
    /\ tapLog' = Append(tapLog, [button |-> button, down |-> TRUE])
    /\ keyLog' = IF button.factory = "createKeyControl"
                 THEN KeyOnDown(button, keyLog)
                 ELSE keyLog
    /\ mouseLog' = IF button.factory = "createScreenMoveControl"
                   THEN ScreenMoveOnDown(button, mouseLog)
                   ELSE mouseLog
    /\ pointerButton' = IF button.factory = "createPointerButtonControl"
                        THEN PointerButtonOnDown(button, pointerButton)
                        ELSE pointerButton
    /\ UNCHANGED <<layersConfig, layerName, layersSize, resizeListeners,
                   unbindControls, mouseOverlay, kbVisHandlers, keyboardVisible,
                   closeIcon, gridConfig, builds, switchLog, errorLog, unbindCalls,
                   keyboardUnbinds, mouseUnbinds, teardowns, resizes, thrown>>
    /\ UNCHANGED renderVars

\* createButton: a release on a bound button runs its handler's onUp, if any
Release(button) ==
    /\ Len(tapLog) < MaxTaps
    /\ button \in mouseOverlay
    /\ button \in held
    /\ held' = held \ {button}
    /\ tapLog' = Append(tapLog, [button |-> button, down |-> FALSE])
    /\ keyLog' = IF button.factory = "createKeyControl"
                 THEN KeyOnUp(button, keyLog)
                 ELSE keyLog
    /\ mouseLog' = IF button.factory = "createScreenMoveControl"
                   THEN ScreenMoveOnUp(button, mouseLog)
                   ELSE mouseLog
    /\ pointerButton' = IF button.factory = "createPointerButtonControl"
                        THEN PointerButtonOnUp(button, pointerButton)
                        ELSE pointerButton
    /\ switchLog' = IF button.factory = "createSwitchControl"
                    THEN SwitchOnUp(button, switchLog)
                    ELSE switchLog
    /\ IF button.factory = "createKeyboardControl"
       THEN ToggleKeyboard
       ELSE UNCHANGED <<keyboardVisible, closeIcon>>
    /\ UNCHANGED <<layersConfig, layerName, layersSize, resizeListeners,
                   unbindControls, mouseOverlay, kbVisHandlers, gridConfig, builds,
                   errorLog, unbindCalls, keyboardUnbinds, mouseUnbinds, teardowns,
                   resizes, thrown>>
    /\ UNCHANGED renderVars

\* a teardown that leaves onResize registered with layers
TeardownKeepsListener ==
    /\ teardowns < MaxTeardowns
    /\ teardowns' = teardowns + 1
    /\ keyboardUnbinds' = keyboardUnbinds + 1
    /\ mouseUnbinds' = mouseUnbinds + 1
    /\ \E run \in {UnbindAll(unbindControls,
                              Dom(mouseOverlay, kbVisHandlers, unbindCalls, FALSE))} :
           /\ mouseOverlay' = run.overlay
           /\ kbVisHandlers' = run.handlers
           /\ unbindCalls' = run.calls
           /\ thrown' = IF run.threw THEN thrown + 1 ELSE thrown
    /\ UNCHANGED <<layersConfig, layerName, layersSize, unbindControls,
                   keyboardVisible, closeIcon, pointerButton, gridConfig, builds,
                   held, keyLog, mouseLog, switchLog, errorLog, tapLog, resizes,
                   resizeListeners>>
    /\ UNCHANGED renderVars

\* the function returned by initLayerConfig
Teardown ==
    /\ teardowns < MaxTeardowns
    /\ teardowns' = teardowns + 1
    /\ resizeListeners' = resizeListeners \ {"onResize"}
    /\ keyboardUnbinds' = keyboardUnbinds + 1
    /\ mouseUnbinds' = mouseUnbinds + 1
    /\ \E run \in {UnbindAll(unbindControls,
                              Dom(mouseOverlay, kbVisHandlers, unbindCalls, FALSE))} :
           /\ mouseOverlay' = run.overlay
           /\ kbVisHandlers' = run.handlers
           /\ unbindCalls' = run.calls
           /\ thrown' = IF run.threw THEN thrown + 1 ELSE thrown
    /\ UNCHANGED <<layersConfig, layerName, layersSize, unbindControls,
                   keyboardVisible, closeIcon, pointerButton, gridConfig, builds,
                   held, keyLog, mouseLog, switchLog, errorLog, tapLog, resizes>>
    /\ UNCHANGED renderVars

(***************************************************************************)
(* The rendering backends.  Both are attached to a canvas of their own and *)
(* are fed the same events.                                                *)
(***************************************************************************)
vars == <<layerVars, renderVars>>

Backends == {"_2d", "webGl"}

RenderContainerSizes == {<<w, h>> : w \in 0..MaxDim, h \in 1..MaxDim}

\* frame widths are multiples of 4, as those of the video modes are
FrameSizes == {<<4 * w, h>> : w \in 1..MaxDim, h \in {1, 3}}

\* ci.width(), ci.height() at construction: 0 before the first frame size is known
InitialFrameSizes == FrameSizes \cup {<<0, 0>>}

FrameSeeds == {0, 250}

\* the RGB arrays a frame event can carry for a frame of n pixels
RgbFrames(n) == {[i \in 1..(3 * n) |-> (s + 7 * i) % 256] : s \in FrameSeeds}

\* a style property of the canvas that has not been assigned
NoStyle == [value |-> DZero, unit |-> ""]

\* the container and frame sizes the backends can meet
LayoutSizes ==
    {<<c[1], c[2], f[1], f[2]>> : c \in RenderContainerSizes, f \in InitialFrameSizes}

\* _2d.onResize: the assignments to canvas.style
Canvas2dSetStyle(cw, ch, width, height) ==
    [position |-> "relative",
     top |-> Px(DDiv(DSub(DNum(ch), height), DNum(2))),
     left |-> Px(DDiv(DSub(DNum(cw), width), DNum(2))),
     width |-> Px(width),
     height |-> Px(height)]

\* an onResize that never falls back to the container height
Canvas2dPickWidthOnly(cw, ch, aspect, height) ==
    Canvas2dSetStyle(cw, ch, DNum(cw), height)

\* _2d.onResize: the width and height chosen, height being containerWidth / aspect
Canvas2dPick(cw, ch, aspect, height) ==
    IF DGt(height, DNum(ch))
    THEN Canvas2dSetStyle(cw, ch, DMul(DNum(ch), aspect), DNum(ch))
    ELSE Canvas2dSetStyle(cw, ch, DNum(cw), height)

\* _2d.onResize: let height = containerWidth / aspect
Canvas2dFit(cw, ch, aspect) ==
    CHOOSE style \in {Canvas2dPick(cw, ch, aspect, height) :
                         height \in {DDiv(DNum(cw), aspect)}} : TRUE

\* _2d.onResize: the style for a container size and a frame size
Canvas2dStyle(cw, ch, fw, fh) ==
    CHOOSE style \in {Canvas2dFit(cw, ch, aspect) :
                         aspect \in {DDiv(DNum(fw), DNum(fh))}} : TRUE

\* that style for every pair of sizes, computed once
Canvas2dStyles == [s \in LayoutSizes |-> Canvas2dStyle(s[1], s[2], s[3], s[4])]

\* _2d.onResize
Canvas2dOnResize(st) ==
    [st EXCEPT !.canvas.style =
        Canvas2dStyles[<<st.containerWidth, st.containerHeight, st.frameWidth, st.frameHeight>>]]

\* _2d.onResizeLayer
Canvas2dOnResizeLayer(st, w, h) ==
    Canvas2dOnResize([st EXCEPT !.containerWidth = w, !.containerHeight = h])

\* an onResizeFrame that leaves the pixel size of the canvas alone
Canvas2dOnResizeFrameKeepsCanvas(st, w, h) ==
    Canvas2dOnResize([st EXCEPT !.frameWidth = w, !.frameHeight = h,
                                !.rgba = [i \in 1..(w * h * 4) |-> 0]])

\* an onResizeFrame that sizes the buffer for three bytes a pixel
Canvas2dOnResizeFrameRgbSized(st, w, h) ==
    Canvas2dOnResize([st EXCEPT !.frameWidth = w, !.frameHeight = h,
                                !.canvas.width = w, !.canvas.height = h,
                                !.rgba = [i \in 1..(w * h * 3) |-> 0]])

\* _2d.onResizeFrame
Canvas2dOnResizeFrame(st, w, h) ==
    Canvas2dOnResize([st EXCEPT !.frameWidth = w, !.frameHeight = h,
                                !.canvas.width = w, !.canvas.height = h,
                                !.rgba = [i \in 1..(w * h * 4) |-> 0]])

\* rgb[offset]: undefined past the end, stored as 0 by a Uint8ClampedArray
ReadByte(rgb, offset) == IF offset < Len(rgb) THEN rgb[offset + 1] ELSE 0

\* rgba[offset] = v: ignored past the end of the typed array
WriteByte(rgba, offset, v) ==
    IF offset < Len(rgba) THEN [rgba EXCEPT ![offset + 1] = v] ELSE rgba

\* a loop that steps through the source four bytes a pixel
RECURSIVE Canvas2dConvertSourceStride4(_, _, _, _, _)
Canvas2dConvertSourceStride4(rgb, rgba, rgbOffset, rgbaOffset, iterations) ==
    IF rgbaOffset < Len(rgba)
    THEN Canvas2dConvertSourceStride4(rgb,
             WriteByte(WriteByte(WriteByte(WriteByte(rgba,
                 rgbaOffset, ReadByte(rgb, rgbOffset)),
                 rgbaOffset + 1, ReadByte(rgb, rgbOffset + 1)),
                 rgbaOffset + 2, ReadByte(rgb, rgbOffset + 2)),
                 rgbaOffset + 3, 255),
             rgbOffset + 4, rgbaOffset + 4, iterations + 1)
    ELSE [rgba |-> rgba, iterations |-> iterations]

\* the while loop of the _2d frame handler
RECURSIVE Canvas2dConvert(_, _, _, _, _)
Canvas2dConvert(rgb, rgba, rgbOffset, rgbaOffset, iterations) ==
    IF rgbaOffset < Len(rgba)
    THEN Canvas2dConvert(rgb,
             WriteByte(WriteByte(WriteByte(WriteByte(rgba,
                 rgbaOffset, ReadByte(rgb, rgbOffset)),
                 rgbaOffset + 1, ReadByte(rgb, rgbOffset + 1)),
                 rgbaOffset + 2, ReadByte(rgb, rgbOffset + 2)),
                 rgbaOffset + 3, 255),
             rgbOffset + 3, rgbaOffset + 4, iterations + 1)
    ELSE [rgba |-> rgba, iterations |-> iterations]

\* context.putImageData(new ImageData(rgba, frameWidth, frameHeight), 0, 0):
\* new ImageData throws unless rgba holds exactly 4 * w * h > 0 bytes
Canvas2dPutImageData(st) ==
    IF Len(st.rgba) = 0 \/ Len(st.rgba) # 4 * st.frameWidth * st.frameHeight
    THEN [st EXCEPT !.thrown = @ + 1]
    ELSE [st EXCEPT !.drawn = Append(@,
             [data |-> st.rgba, width |-> st.frameWidth, height |-> st.frameHeight,
              canvasWidth |-> st.canvas.width, canvasHeight |-> st.canvas.height])]

\* the _2d frame handler once the loop has run
Canvas2dAfterLoop(st, done) ==
    Canvas2dPutImageData([st EXCEPT !.rgba = done.rgba, !.iterations = done.iterations])

\* the _2d frame handler
Canvas2dOnFrame(st, rgb) ==
    Canvas2dAfterLoop(st, Canvas2dConvert(rgb, st.rgba, 0, 0, 0))

\* webGl.onResize: the assignments to canvas.style
WebGlSetStyle(cw, ch, width, height) ==
    [position |-> "relative",
     top |-> Px(DDiv(DSub(DNum(ch), height), DNum(2))),
     left |-> Px(DDiv(DSub(DNum(cw), width), DNum(2))),
     width |-> Px(width),
     height |-> Px(height)]

\* webGl.onResize: the width and height chosen, height being containerWidth / aspect
WebGlPick(cw, ch, aspect, height) ==
    IF DGt(height, DNum(ch))
    THEN WebGlSetStyle(cw, ch, DMul(DNum(ch), aspect), DNum(ch))
    ELSE WebGlSetStyle(cw, ch, DNum(cw), height)

\* webGl.onResize: let height = containerWidth / aspect
WebGlFit(cw, ch, aspect) ==
    CHOOSE style \in {WebGlPick(cw, ch, aspect, height) :
                         height \in {DDiv(DNum(cw), aspect)}} : TRUE

\* webGl.onResize: the style for a container size and a frame size
WebGlStyle(cw, ch, fw, fh) ==
    CHOOSE style \in {WebGlFit(cw, ch, aspect) :
                         aspect \in {DDiv(DNum(fw), DNum(fh))}} : TRUE

\* that style for every pair of sizes, computed once
WebGlStyles == [s \in LayoutSizes |-> WebGlStyle(s[1], s[2], s[3], s[4])]

\* webGl.onResize
WebGlOnResize(st) ==
    [st EXCEPT !.canvas.style =
        WebGlStyles[<<st.containerWidth, st.containerHeight, st.frameWidth, st.frameHeight>>]]

\* an onResizeLayer that records the size without laying the canvas out
WebGlOnResizeLayerNoLayout(st, w, h) ==
    [st EXCEPT !.containerWidth = w, !.containerHeight = h]

\* webGl.onResizeLayer
WebGlOnResizeLayer(st, w, h) ==
    WebGlOnResize([st EXCEPT !.containerWidth = w, !.containerHeight = h])

\* webGl.onResizeFrame
WebGlOnResizeFrame(st, w, h) ==
    WebGlOnResize([st EXCEPT !.frameWidth = w, !.frameHeight = h,
                             !.canvas.width = w, !.canvas.height = h,
                             !.viewport = <<0, 0, w, h>>])

\* fsSource: gl_FragColor = vec4(color.r, color.g, color.b, 1.0)
FragmentShader(rgb) ==
    [i \in 1..(4 * (Len(rgb) \div 3)) |->
        IF i % 4 = 0 THEN 255 ELSE rgb[3 * ((i - 1) \div 4) + ((i - 1) % 4) + 1]]

\* bytes texImage2D reads for a width x height RGB image whose rows are
\* aligned to 4 bytes (the default UNPACK_ALIGNMENT)
TexImageBytes(width, height) ==
    IF width = 0 \/ height = 0 THEN 0
    ELSE 4 * ((3 * width + 3) \div 4) * (height - 1) + 3 * width

\* gl.texImage2D(..., frameWidth, frameHeight, ..., rgb): an array shorter than
\* the image is rejected and the texture left as it was
WebGlTexImage2D(st, rgb) ==
    IF Len(rgb) < TexImageBytes(st.frameWidth, st.frameHeight)
    THEN st
    ELSE [st EXCEPT !.texture =
             [width |-> st.frameWidth, height |-> st.frameHeight, data |-> rgb]]

\* gl.drawArrays(gl.TRIANGLES, 0, 6): the bound texture is drawn over the canvas
WebGlDrawArrays(st) ==
    [st EXCEPT !.drawn = Append(@,
        [data |-> FragmentShader(st.texture.data),
         width |-> st.texture.width, height |-> st.texture.height,
         canvasWidth |-> st.canvas.width, canvasHeight |-> st.canvas.height])]

\* the webGl frame handler
WebGlOnFrame(st, rgb) == WebGlDrawArrays(WebGlTexImage2D(st, rgb))

\* the closure variables of _2d before onResizeFrame(ci.width(), ci.height())
Canvas2dNew(size) ==
    [containerWidth |-> size[1], containerHeight |-> size[2],
     frameWidth |-> 0, frameHeight |-> 0,
     canvas |-> [width |-> 300, height |-> 150,
                 style |-> [position |-> "", top |-> NoStyle, left |-> NoStyle,
                            width |-> NoStyle, height |-> NoStyle]],
     rgba |-> <<>>, iterations |-> 0, drawn |-> <<>>, thrown |-> 0,
     listening |-> TRUE]

\* the closure variables of webGl before onResizeFrame(ci.width(), ci.height())
WebGlNew(size) ==
    [containerWidth |-> size[1], containerHeight |-> size[2],
     frameWidth |-> 0, frameHeight |-> 0,
     canvas |-> [width |-> 300, height |-> 150,
                 style |-> [position |-> "", top |-> NoStyle, left |-> NoStyle,
                            width |-> NoStyle, height |-> NoStyle]],
     texture |-> [width |-> 1, height |-> 1, data |-> <<0, 0, 0>>],
     viewport |-> <<0, 0, 300, 150>>, drawn |-> <<>>,
     listening |-> TRUE]

\* _2d(layers, ci) and webGl(layers, ci)
InitGraphics(size, frame) ==
    /\ containerSize = size
    /\ ciFrameSize = frame
    /\ render = [b \in Backends |->
                    IF b = "_2d"
                    THEN Canvas2dOnResizeFrame(Canvas2dNew(size), frame[1], frame[2])
                    ELSE WebGlOnResizeFrame(WebGlNew(size), frame[1], frame[2])]
    /\ exited = FALSE
    /\ frameLog = <<>>
    /\ rgbLog = <<>>
    /\ layerResizes = 0
    /\ renderEvents = 0

\* layers notifies its resize listeners: onResizeLayer of each backend whose
\* listener is still registered
ContainerResize(w, h) ==
    /\ renderEvents < MaxRenderEvents
    /\ renderEvents' = renderEvents + 1
    /\ layerResizes' = layerResizes + 1
    /\ containerSize' = <<w, h>>
    /\ render' = [b \in Backends |->
                    IF ~render[b].listening THEN render[b]
                    ELSE IF b = "_2d" THEN Canvas2dOnResizeLayer(render[b], w, h)
                    ELSE WebGlOnResizeLayer(render[b], w, h)]
    /\ UNCHANGED <<exited, ciFrameSize, frameLog, rgbLog>>
    /\ UNCHANGED layerVars

\* ci.events().onFrameSize
FrameSize(w, h) ==
    /\ renderEvents < MaxRenderEvents
    /\ ~exited
    /\ renderEvents' = renderEvents + 1
    /\ ciFrameSize' = <<w, h>>
    /\ render' = [b \in Backends |->
                    IF b = "_2d" THEN Canvas2dOnResizeFrame(render[b], w, h)
                    ELSE WebGlOnResizeFrame(render[b], w, h)]
    /\ UNCHANGED <<exited, containerSize, frameLog, rgbLog, layerResizes>>
    /\ UNCHANGED layerVars

\* ci.events().onFrame: the emulator emits a frame of its current frame size
Frame(rgb) ==
    /\ renderEvents < MaxRenderEvents
    /\ ~exited
    /\ renderEvents' = renderEvents + 1
    /\ frameLog' = Append(frameLog, ciFrameSize)
    /\ rgbLog' = Append(rgbLog, rgb)
    /\ render' = [b \in Backends |->
                    IF b = "_2d" THEN Canvas2dOnFrame(render[b], rgb)
                    ELSE WebGlOnFrame(render[b], rgb)]
    /\ UNCHANGED <<exited, containerSize, ciFrameSize, layerResizes>>
    /\ UNCHANGED layerVars

\* an exit handler that leaves onResizeLayer registered with layers
ExitKeepsListener ==
    /\ renderEvents < MaxRenderEvents
    /\ ~exited
    /\ renderEvents' = renderEvents + 1
    /\ exited' = TRUE
    /\ UNCHANGED <<render, containerSize, ciFrameSize, frameLog, rgbLog, layerResizes>>
    /\ UNCHANGED layerVars

\* ci.events().onExit
Exit ==
    /\ renderEvents < MaxRenderEvents
    /\ ~exited
    /\ renderEvents' = renderEvents + 1
    /\ exited' = TRUE
    /\ render' = [b \in Backends |-> [render[b] EXCEPT !.listening = FALSE]]
    /\ UNCHANGED <<containerSize, ciFrameSize, frameLog, rgbLog, layerResizes>>
    /\ UNCHANGED layerVars

(***************************************************************************)
(* Specifications.                                                         *)
(***************************************************************************)
\* the controls layer under taps, resizes and teardown; the renderer is idle
\* the arguments explored: every layer name, and every direction of the
\* ScreenMove control where the layer shown has one
LayersInputs ==
    {input \in LayersConfigs \X LayerNames :
        \/ input[1] = MkLayersConfig(StrUp)
        \/ \E i \in 1..Len(SelectLayer(input[1], input[2]).controls) :
              SelectLayer(input[1], input[2]).controls[i].type = "ScreenMove"}

Init ==
    /\ \E input \in LayersInputs, size \in ContainerSizes :
          InitLayersControl(input[1], input[2], size)
    /\ InitGraphics(<<1, 1>>, <<0, 0>>)

Next ==
    \/ \E size \in ContainerSizes : LayersResize(size[1], size[2])
    \/ \E button \in mouseOverlay : Press(button)
    \/ \E button \in mouseOverlay : Release(button)
    \/ Teardown

Spec == Init /\ [][Next]_vars

\* the two backends under emulator and container events; the controls are idle
InitRender ==
    /\ InitLayersControl(MkLayersConfig(StrUp), "empty", <<60, 60>>)
    /\ \E size \in RenderContainerSizes, frame \in InitialFrameSizes :
          InitGraphics(size, frame)

NextRender ==
    \/ \E size \in RenderContainerSizes : ContainerResize(size[1], size[2])
    \/ \E size \in FrameSizes : FrameSize(size[1], size[2])
    \/ \E rgb \in RgbFrames(ciFrameSize[1] * ciFrameSize[2]) : ciFrameSize[1] > 0 /\ Frame(rgb)
    \/ Exit

SpecRender == InitRender /\ [][NextRender]_vars

(***************************************************************************)
(* Properties.                                                             *)
(***************************************************************************)
\* the tap events delivered to buttons of Key controls, in order
KeyTaps == SelectSeq(tapLog, LAMBDA t : t.button.control.type = "Key")

\* C1: the key events the command interface receives are exactly one per tap
\* on a Key control, in the order of the taps: (mapTo, true) for a press and
\* (mapTo, false) for a release, mapTo being that of the tapped control.
C1_KeyEventsFollowTaps ==
    /\ Len(keyLog) = Len(KeyTaps)
    /\ \A i \in 1..Len(KeyTaps) :
          /\ keyLog[i].key = KeyTaps[i].button.control.mapTo
          /\ keyLog[i].pressed = KeyTaps[i].down

\* two Key controls tapped alternately: A down, B down, A up
C1_Witness ==
    /\ Len(keyLog) = 3
    /\ keyLog[1] = [key |-> KeyA, pressed |-> TRUE]
    /\ keyLog[2] = [key |-> KeyB, pressed |-> TRUE]
    /\ keyLog[3] = [key |-> KeyA, pressed |-> FALSE]

ControlTypes == {"Key", "Options", "Keyboard", "Switch", "ScreenMove", "PointerButton"}

\* the entries of the selected layer's controls list that have a known type
KnownEntries ==
    {i \in 1..Len(selectedLayer.controls) : selectedLayer.controls[i].type \in ControlTypes}

\* the size of one grid cell for the container size last notified
CellWidth == FDiv(Num(layersSize[1]), Num(GridCols(selectedLayer.grid)))

CellHeight == FDiv(Num(layersSize[2]), Num(GridRows(selectedLayer.grid)))

\* C2: until teardown, the bound controls are exactly one per entry of known
\* type of the selected layer, all built by the latest onResize run and placed
\* on the grid of the container size last notified.
C2_ControlsFollowSize ==
    teardowns = 0 =>
        /\ Cardinality(mouseOverlay) = Cardinality(KnownEntries)
        /\ \A i \in KnownEntries :
              \E b \in mouseOverlay :
                 /\ b.id = <<builds, i>>
                 /\ b.control = selectedLayer.controls[i]
                 /\ b.top = Px(FMul(CellHeight, Num(b.control.row)))
                 /\ b.control.type # "Options" =>
                       b.left = Px(FMul(CellWidth, Num(b.control.column)))
                 /\ b.control.type = "Options" =>
                       b.right = Px(FSub(Num(layersSize[1]),
                                         FMul(CellWidth, Num(b.control.column + 1))))

\* controls rebuilt twice, the last time for a size other than the initial one
C2_Witness ==
    /\ teardowns = 0
    /\ builds = 3
    /\ layersSize[1] > 60
    /\ Cardinality(mouseOverlay) >= 2

\* the factory the dispatch table names for each control type
FactoryOf(type) ==
    CASE type = "Key" -> "createKeyControl"
      [] type = "Options" -> "createOptionsControl"
      [] type = "Keyboard" -> "createKeyboardControl"
      [] type = "Switch" -> "createSwitchControl"
      [] type = "ScreenMove" -> "createScreenMoveControl"
      [] type = "PointerButton" -> "createPointerButtonControl"

\* the types of the entries without a factory, in list order
UnknownTypes ==
    LET types == [i \in 1..Len(selectedLayer.controls) |-> selectedLayer.controls[i].type]
    IN  SelectSeq(types, LAMBDA t : t \notin ControlTypes)

RECURSIVE Repeat(_, _)
Repeat(seq, n) == IF n = 0 THEN <<>> ELSE seq \o Repeat(seq, n - 1)

C4_BackendsLayOutAlike ==
    /\ render["_2d"].canvas.width = render["webGl"].canvas.width
    /\ render["_2d"].canvas.height = render["webGl"].canvas.height
    /\ render["_2d"].canvas.style = render["webGl"].canvas.style

\* a frame, a container resize that letterboxes the canvas, then the exit
C4_Witness ==
    /\ exited
    /\ layerResizes >= 1
    /\ Len(frameLog) >= 1
    /\ render["webGl"].canvas.style.top.value # DZero
    /\ render["webGl"].canvas.style.top.value # DNaN

Contains(s, sub) ==
    \E i \in 1..(Len(s) - Len(sub) + 1) : SubSeq(s, i, i + Len(sub) - 1) = sub

\* the coordinates a ScreenMove control of the given direction sends on a press
MoveX(direction) ==
    IF Contains(direction, StrRight) THEN Num(1)
    ELSE IF Contains(direction, StrLeft) THEN Num(0) ELSE Frac(1, 2)

MoveY(direction) ==
    IF Contains(direction, StrDown) THEN Num(1)
    ELSE IF Contains(direction, StrUp) THEN Num(0) ELSE Frac(1, 2)

\* the tap events delivered to buttons of ScreenMove controls, in order
MoveTaps == SelectSeq(tapLog, LAMBDA t : t.button.control.type = "ScreenMove")

\* C6: a press on a ScreenMove control sends the mouse motion (mX, mY) of its
\* direction (right wins over left, down over up, 0.5 when neither occurs), a
\* release sends (0.5, 0.5), and every coordinate sent is 0, 0.5 or 1.
C6_ScreenMoveMotion ==
    /\ Len(mouseLog) = Len(MoveTaps)
    /\ \A i \in 1..Len(MoveTaps) :
          /\ mouseLog[i] =
                IF MoveTaps[i].down
                THEN [x |-> MoveX(MoveTaps[i].button.control.direction),
                      y |-> MoveY(MoveTaps[i].button.control.direction)]
                ELSE [x |-> Frac(1, 2), y |-> Frac(1, 2)]
          /\ mouseLog[i].x \in {Num(0), Frac(1, 2), Num(1)}
          /\ mouseLog[i].y \in {Num(0), Frac(1, 2), Num(1)}

\* a control whose direction names both left and right, pressed and released
C6_Witness ==
    /\ Len(mouseLog) = 2
    /\ MoveTaps[1].button.control.direction = StrLeft \o StrRight
    /\ mouseLog[1] = [x |-> Num(1), y |-> Frac(1, 2)]
    /\ mouseLog[2] = [x |-> Frac(1, 2), y |-> Frac(1, 2)]

\* C7: a Key control that has sent sendKeyEvent(mapTo, true) without a
\* matching sendKeyEvent(mapTo, false) is still bound: by the time it is
\* unbound (rebuild or teardown) the release has been sent.
C7_NoKeyLeftPressed ==
    \A b \in held : b.control.type = "Key" => b \in mouseOverlay

\* the PointerButton controls that are bound and held
HeldPointerButtons ==
    {b \in held \cap mouseOverlay : b.control.type = "PointerButton"}

\* C8: while the controls built at initialisation are bound, layers.pointerButton
\* is 0 when no PointerButton control is held and otherwise the button of a
\* control that is held.
C8_PointerButtonOfHeld ==
    (builds = 1 /\ teardowns = 0) =>
        IF HeldPointerButtons = {}
        THEN pointerButton = 0
        ELSE \E b \in HeldPointerButtons : pointerButton = b.control.button

\* the unbind closures invoked by the step
NewUnbindCalls ==
    {unbindCalls'[k] : k \in (Len(unbindCalls) + 1)..Len(unbindCalls')}

\* C9: a call of the teardown function removes the resize listener, unbinds
\* the keyboard and the mouse once each and unbinds every control bound at
\* that moment; after teardown no control is created and none is bound.
C9_TeardownComplete ==
    [][ /\ teardowns' = teardowns + 1 =>
              /\ "onResize" \notin resizeListeners'
              /\ keyboardUnbinds' = keyboardUnbinds + 1
              /\ mouseUnbinds' = mouseUnbinds + 1
              /\ \A b \in mouseOverlay : b.id \in NewUnbindCalls
              /\ mouseOverlay' = {}
        /\ teardowns >= 1 =>
              /\ mouseOverlay' = {}
              /\ unbindControls' = unbindControls
              /\ "onResize" \notin resizeListeners' ]_vars

\* a layer with controls torn down, and a resize notified after the teardown
C9_Witness ==
    /\ teardowns >= 1
    /\ Len(unbindControls) >= 2
    /\ mouseOverlay = {}
    /\ gridConfig.width # Num(layersSize[1])

\* the canvas style a backend shows for a container size and a frame size
StyleFor(b, container, frame) ==
    IF b = "_2d"
    THEN Canvas2dOnResizeFrame(Canvas2dNew(container), frame[1], frame[2]).canvas.style
    ELSE WebGlOnResizeFrame(WebGlNew(container), frame[1], frame[2]).canvas.style

\* C10: a container resize before the exit event sets containerWidth and
\* containerHeight of each backend to the new size and lays the canvas out for
\* it; a container resize after the exit event changes none of them.
C10_ResizeListenerRemovedOnExit ==
    [][ layerResizes' # layerResizes =>
          \A b \in Backends :
             IF exited
             THEN /\ render'[b].containerWidth = render[b].containerWidth
                  /\ render'[b].containerHeight = render[b].containerHeight
                  /\ render'[b].canvas.style = render[b].canvas.style
             ELSE /\ render'[b].containerWidth = containerSize'[1]
                  /\ render'[b].containerHeight = containerSize'[2]
                  /\ render'[b].canvas.style =
                        StyleFor(b, containerSize', <<render[b].frameWidth,
                                                      render[b].frameHeight>>) ]_vars

\* a container resize before the exit took effect, one after it did not
C10_Witness ==
    /\ exited
    /\ layerResizes >= 2
    /\ \A b \in Backends :
          /\ <<render[b].containerWidth, render[b].containerHeight>> # containerSize
          /\ render[b].canvas.style.width.value # DNum(containerSize[1])

\* the positions in layersConfig.layers of the layers titled layerName
TitledLayers ==
    {i \in 1..Len(layersConfig.layers) : layersConfig.layers[i].title = layerName}

\* the layer the selection rule names
ExpectedLayer ==
    IF layerName = Undefined \/ TitledLayers = {}
    THEN layersConfig.layers[1]
    ELSE layersConfig.layers[CHOOSE i \in TitledLayers : \A j \in TitledLayers : i <= j]

\* C11: the layer shown is the first layer titled layerName when layerName is
\* given and some layer has that title, and layers[0] otherwise: the controls
\* built, in order, are that layer's entries of known type, on that layer's grid.
C11_FirstLayerOfThatTitle ==
    /\ [k \in 1..Len(unbindControls) |-> unbindControls[k].control] =
          SelectSeq(ExpectedLayer.controls, LAMBDA c : c.type \in ControlTypes)
    /\ gridConfig.gridType = ExpectedLayer.grid

\* two layers are titled "keys": the controls of the first are shown, also
\* after a rebuild
C11_Witness ==
    /\ layerName = "keys"
    /\ Cardinality(TitledLayers) = 2
    /\ builds = 2
    /\ Len(unbindControls) = 2
    /\ unbindControls[1].control.mapTo = KeyA

\* how many times the unbind closure of the element `id` has been invoked
UnbindCount(id) == Cardinality({k \in 1..Len(unbindCalls) : unbindCalls[k] = id})

\* C12: the unbind closure of each created control is invoked at most once,
\* whatever resizes and teardown calls (repeated ones included) occur.
C12_UnbindAtMostOnce ==
    \A k \in 1..Len(unbindCalls) : UnbindCount(unbindCalls[k]) <= 1

\* C14: in the 2D backend the RGBA buffer holds 4 * frameWidth * frameHeight
\* bytes and the canvas is frameWidth by frameHeight pixels, for the most recent
\* frame size, after initialisation and after every event; so frame and
\* container-resize events, which announce no frame size, change neither.
C14_BufferMatchesFrameSize ==
    /\ render["_2d"].frameWidth = ciFrameSize[1]
    /\ render["_2d"].frameHeight = ciFrameSize[2]
    /\ Len(render["_2d"].rgba) = 4 * ciFrameSize[1] * ciFrameSize[2]
    /\ render["_2d"].canvas.width = ciFrameSize[1]
    /\ render["_2d"].canvas.height = ciFrameSize[2]

\* a frame and a container resize have followed a change of the frame size
C14_Witness ==
    /\ Len(frameLog) >= 1
    /\ layerResizes >= 1
    /\ frameLog[1] # ciFrameSize
    /\ ciFrameSize[1] > 0
    /\ Len(render["_2d"].rgba) = 4 * ciFrameSize[1] * ciFrameSize[2]

\* the number of pixels of the k-th frame event
Pixels(k) == frameLog[k][1] * frameLog[k][2]

\* C15: in the 2D backend a frame event carrying 3 * frameWidth * frameHeight
\* RGB bytes draws an image whose pixel i has the red, green and blue bytes of
\* rgb[3i .. 3i+2] and alpha 255; the loop runs frameWidth * frameHeight times
\* and all its writes fall inside the 4 * frameWidth * frameHeight byte buffer.
C15_FrameConvertedToRgba ==
    /\ Len(render["_2d"].drawn) = Len(rgbLog)
    /\ \A k \in 1..Len(rgbLog) :
          Len(rgbLog[k]) = 3 * Pixels(k) =>
             /\ Len(render["_2d"].drawn[k].data) = 4 * Pixels(k)
             /\ \A i \in 0..(Pixels(k) - 1) :
                   /\ \A c \in 0..2 :
                         render["_2d"].drawn[k].data[4 * i + c + 1] = rgbLog[k][3 * i + c + 1]
                   /\ render["_2d"].drawn[k].data[4 * i + 4] = 255
    /\ Len(rgbLog) >= 1 =>
          /\ render["_2d"].iterations = Pixels(Len(rgbLog))
          /\ 4 * render["_2d"].iterations = Len(render["_2d"].drawn[Len(rgbLog)].data)

\* two frames of different content have been drawn, the second over the first
C15_Witness ==
    /\ Len(rgbLog) = 2
    /\ rgbLog[1] # rgbLog[2]
    /\ Len(render["_2d"].drawn) = 2
    /\ render["_2d"].drawn[2].data[1] = rgbLog[2][1]
    /\ render["_2d"].iterations >= 4

\* the Keyboard buttons now on layers.mouseOverlay
BoundKeyboards == {b \in mouseOverlay : b.factory = "createKeyboardControl"}

StyleValue(b, prop) == render[b].canvas.style[prop].value

\* frame and container are of positive size and the backends follow the container
Letterboxing ==
    /\ ~exited
    /\ containerSize[1] > 0 /\ containerSize[2] > 0
    /\ ciFrameSize[1] > 0 /\ ciFrameSize[2] > 0

\* W <= containerWidth and H <= containerHeight
FitsInside(b) ==
    /\ XLe(StyleValue(b, "width"), DNum(containerSize[1]))
    /\ XLe(StyleValue(b, "height"), DNum(containerSize[2]))

\* W = containerWidth or H = containerHeight
Touches(b) ==
    \/ StyleValue(b, "width") = DNum(containerSize[1])
    \/ StyleValue(b, "height") = DNum(containerSize[2])

\* W * frameHeight and H * frameWidth, exactly
WidthByFrameHeight(b) == XMul(StyleValue(b, "width"), DNum(ciFrameSize[2]))

HeightByFrameWidth(b) == XMul(StyleValue(b, "height"), DNum(ciFrameSize[1]))

\* (containerHeight - H) / 2 and (containerWidth - W) / 2, exactly
CentredTop(b) == XScale(XSub(DNum(containerSize[2]), StyleValue(b, "height")), -1)

CentredLeft(b) == XScale(XSub(DNum(containerSize[1]), StyleValue(b, "width")), -1)

\* |a - b| <= 2^(-bits) * b
Within(a, b, bits) == XLe(XAbs(XSub(a, b)), XScale(b, -bits))

\* the statement of C13 as first made: the canvas fits inside the container,
\* touches it in one dimension, and has exactly the frame's aspect ratio and
\* exactly the centred position
C13_LetterboxExact ==
    Letterboxing =>
        \A b \in Backends :
           /\ FitsInside(b)
           /\ Touches(b)
           /\ WidthByFrameHeight(b) = HeightByFrameWidth(b)
           /\ StyleValue(b, "top") = CentredTop(b)
           /\ StyleValue(b, "left") = CentredLeft(b)
           /\ StyleValue(b, "top").s >= 0
           /\ StyleValue(b, "left").s >= 0

\* C13: while frame and container sizes are positive and the exit event has
\* not fired, the canvas fits inside the container (W <= containerWidth,
\* H <= containerHeight), touches it in one dimension, and top and left are
\* not negative; the aspect ratio and the centring hold up to the rounding of
\* double arithmetic: |W * frameHeight - H * frameWidth| <= 2^-51 * H * frameWidth,
\* and top and left are within a relative 2^-53 of (containerHeight - H) / 2
\* and (containerWidth - W) / 2.
C13_LetterboxRounded ==
    Letterboxing =>
        \A b \in Backends :
           /\ FitsInside(b)
           /\ Touches(b)
           /\ Within(WidthByFrameHeight(b), HeightByFrameWidth(b), 51)
           /\ Within(StyleValue(b, "top"), CentredTop(b), 53)
           /\ Within(StyleValue(b, "left"), CentredLeft(b), 53)
           /\ StyleValue(b, "top").s >= 0
           /\ StyleValue(b, "left").s >= 0

\* after a container resize the canvas is as high as the container and its
\* width, containerHeight * aspect, is a rounded value
C13_Witness ==
    /\ Letterboxing
    /\ layerResizes >= 1
    /\ \A b \in Backends :
          /\ StyleValue(b, "height") = DNum(containerSize[2])
          /\ StyleValue(b, "width") # DNum(containerSize[1])
          /\ WidthByFrameHeight(b) # HeightByFrameWidth(b)
          /\ StyleValue(b, "left").s = 1

====
